---- MODULE Spec2Model ----
(***************************************************************************)
(* Incremental usage-tracking pipeline of the AI chat context extension:   *)
(* the Claude content script (scheduler, recomputation pass, token cache), *)
(* the ChatGPT content script, and the request bridge countTokens.         *)
(*                                                                         *)
(* JavaScript runs each callback to completion, so one action is one       *)
(* callback run up to its next await.  Timers fire in any order: the time  *)
(* a count response takes is not bounded by the code.                      *)
(***************************************************************************)
EXTENDS Integers, Sequences, FiniteSets, Bags, TLC

VARIABLES
  tracker,                  \* which content script runs on the page
  location,                 \* window.location (path)
  currentUrl,               \* this.currentUrl
  messages,                 \* DOM: the message elements and their text
  inputText,                \* DOM: text of the input field
  tokenCache,               \* this.tokenCache, a Map in insertion order
  passes,                   \* calculateContext executions between start and end
  isCalculating,            \* this.isCalculating
  calculationTimeout,       \* the timer this.calculationTimeout (Claude) or
                            \* this.calculateDebounceTimer (ChatGPT) refers to
  timers,                   \* number of pending debounce timers
  initTimer,                \* the initial setTimeout of setup() is pending
  switchTimers,             \* pending re-observe timers of handleChatSwitch
  hasCompletedInitialLoad,  \* this.hasCompletedInitialLoad
  observer,                 \* this.observer is a connected MutationObserver
  retryCount,               \* this.retryCount
  retryTimers,              \* pending observeChat retries
  lateTimers,               \* pending 1500 ms timers of the ChatGPT chat switch
  retries,                  \* the tick counts of the running 300 ms intervals
  leaked,                   \* history: connected chat observers that
                            \* this.observer refers to no longer
  attempts,                 \* observeChat() calls since the conversation changed
  inputListening,           \* the input field reports changes to the tracker
  indicator,                \* what the last contextIndicator.update displayed
  bridge,                   \* one countTokens call, followed on its own
  cacheOps,                 \* the cache operations of one pass, on their own
  worker,                   \* the background script: encoders and requests
  lastRun,                  \* history: how the latest run of calculateContext
                            \* code ended, and its contextIndicator.update calls
  unseen,                   \* history: the notifications no pass has started
                            \* after: "none", "one" or "several"
  missed                    \* history: a notification arrived during a pass

vars == <<tracker, location, currentUrl, messages, inputText, tokenCache,
          passes, isCalculating, calculationTimeout, timers, initTimer,
          switchTimers, hasCompletedInitialLoad, observer, retryCount,
          retryTimers, lateTimers, retries, leaked, attempts, inputListening,
          indicator, bridge, cacheOps,
          worker,
          lastRun,
          unseen,
          missed>>

-----------------------------------------------------------------------------
(* Bounds of the model *)

MaxPasses == 2          \* passes executing at once
MaxTimers == 2          \* pending debounce timers
MaxSwitchTimers == 1    \* pending handleChatSwitch timers
MaxRetryTimers == 2     \* pending observeChat retry timers
MaxTextLen == 9         \* longest text given to countTokens on its own
MaxCacheSize == 1002    \* largest cache the trim is applied to
MaxInserts == 2         \* insertions and hits tried before a trim
MaxLateTimers == 1      \* pending 1500 ms timers of the ChatGPT chat switch
MaxOver == 1            \* tokens beyond the limit given to the indicator
MaxRequests == 3        \* COUNT_TOKENS requests the background script receives
MaxLeaked == 2
MaxAttempts == 8        \* observeChat() calls counted in one conversation

(* Program constants *)

CacheLimit == 1000      \* tokenCache.size > 1000
CacheKeep == 500        \* slice(-500)
PrefixLen == 100        \* substring(0, 100)
GptMaxRetries == 10
maxRetries == 5         \* private maxRetries: number = 5
CharsPerToken == 4      \* Math.ceil(text.length / 4)
ClaudeLimit == 200000
SystemPromptEstimate == 750
GptLimit == 16000

-----------------------------------------------------------------------------
(* Texts are sequences of characters *)

Min(a, b) == IF a < b THEN a ELSE b

TxtEmpty == <<>>
TxtHi == <<"h", "i">>
TxtOkCopy == <<"o", "k", " ", "C", "o", "p", "y">>

\* the texts a message element can show
MsgTexts(e) == IF e = 1 THEN {TxtHi} ELSE {TxtOkCopy}
InputTexts == {TxtEmpty, TxtHi}

Elems == {1, 2}
Role(e) == IF e = 1 THEN "user" ELSE "assistant"

\* text.substring(0, 100)
Prefix(text) == SubSeq(text, 1, Min(Len(text), PrefixLen))

\* `user-${text.substring(0, 100)}`
CacheKeyWholeText(role, text) == <<role, text>>

CacheKey(role, text) == <<role, Prefix(text)>>

ButtonWords ==
  { <<"C", "o", "p", "y">>, <<"E", "d", "i", "t">>, <<"R", "e", "t", "r", "y">>,
    <<"G", "o", "o", "d", " ", "r", "e", "s", "p", "o", "n", "s", "e">>,
    <<"B", "a", "d", " ", "r", "e", "s", "p", "o", "n", "s", "e">>,
    <<"S", "h", "a", "r", "e">>,
    <<"S", "w", "i", "t", "c", "h", " ", "m", "o", "d", "e", "l">> }

IsPrefixOf(w, s) == Len(w) <= Len(s) /\ SubSeq(s, 1, Len(w)) = w

RECURSIVE RemoveButtonWords(_)
RemoveButtonWords(s) ==
  IF s = <<>> THEN <<>>
  ELSE IF \E w \in ButtonWords : IsPrefixOf(w, s)
       THEN LET w == CHOOSE x \in ButtonWords : IsPrefixOf(x, s)
            IN RemoveButtonWords(SubSeq(s, Len(w) + 1, Len(s)))
       ELSE <<Head(s)>> \o RemoveButtonWords(Tail(s))

RECURSIVE TrimText(_)
TrimText(s) ==
  IF s = <<>> THEN <<>>
  ELSE IF Head(s) = " " THEN TrimText(Tail(s))
  ELSE IF s[Len(s)] = " " THEN TrimText(SubSeq(s, 1, Len(s) - 1))
  ELSE s

\* text.replace(/(Copy|Edit|...)/g, '').trim()
CleanText(text) == TrimText(RemoveButtonWords(text))

-----------------------------------------------------------------------------
(* Map<string, number>: entries in insertion order.  src is history: where *)
(* the value came from, and at is history: the insertion stamp.            *)

MapHas(m, k) == \E i \in DOMAIN m : m[i].key = k

MapGet(m, k) == (m[CHOOSE i \in DOMAIN m : m[i].key = k]).value

MapStamp(m) == IF m = <<>> THEN 0 ELSE m[Len(m)].at

\* Map.prototype.set: a new key is appended, an existing key keeps its place
MapSet(m, k, v, s) ==
  IF MapHas(m, k)
  THEN [i \in DOMAIN m |->
          IF m[i].key = k THEN [m[i] EXCEPT !.value = v, !.src = s] ELSE m[i]]
  ELSE Append(m, [key |-> k, value |-> v, src |-> s, at |-> MapStamp(m) + 1])

FirstEntries(m) == SubSeq(m, 1, CacheKeep)

\* Array.from(this.tokenCache.entries()).slice(-500)
LastEntries(m) == SubSeq(m, Len(m) - CacheKeep + 1, Len(m))

TrimCacheNever(m) == m

TrimCache(m) == IF Len(m) > CacheLimit THEN LastEntries(m) ELSE m

-----------------------------------------------------------------------------
(* Request bridge: countTokens of the content script *)

\* encoder.encode(text).length of the encoding service
Encode(text) == Len(text)

approximateTokensFloor(text) == Len(text) \div CharsPerToken

\* Math.ceil(text.length / 4)
approximateTokens(text) == (Len(text) + CharsPerToken - 1) \div CharsPerToken

Outcomes == {"success", "failure", "noResponse", "throws"}

countTokensUncaught(text, outcome) ==
  IF outcome = "success"
  THEN [status |-> "resolved", value |-> Encode(text), src |-> "service"]
  ELSE [status |-> "rejected", value |-> 0, src |-> "none"]

\* what the await in countTokens ends with, and what countTokens then does
countTokens(text, outcome) ==
  IF outcome = "success"
  THEN [status |-> "resolved", value |-> Encode(text), src |-> "service"]
  ELSE [status |-> "resolved", value |-> approximateTokens(text), src |-> "fallback"]

-----------------------------------------------------------------------------
(* The indicator: update(currentTokens, maxTokens, hasScrollableContent,   *)
(* isLoading) of createContextIndicator                                     *)

Update(currentTokens, maxTokens, hasScrollableContent, isLoading) ==
  IF isLoading
  THEN [loading |-> TRUE, current |-> 0, max |-> 0, warn |-> FALSE]
  ELSE [loading |-> FALSE, current |-> currentTokens, max |-> maxTokens,
        warn |-> hasScrollableContent]

-----------------------------------------------------------------------------
(* Recomputation passes *)

Urls == {"/new", "/chat/a"}

discoveryVars ==
  <<observer, retryCount, retryTimers, lateTimers, retries, leaked, attempts,
    inputListening>>
timerVars == <<calculationTimeout, timers>>
passVars == <<tokenCache, passes, isCalculating, hasCompletedInitialLoad, indicator,
             lastRun>>
sideVars == <<bridge, cacheOps, worker>>

\* CleanText of each text a message can hold, computed once
Cleaned == [t \in {TxtHi, TxtOkCopy} |-> CleanText(t)]

\* msg.textContent, cleaned for an assistant message of the Claude page
FragmentText(e) ==
  IF tracker = "claude" /\ Role(e) = "assistant"
  THEN Cleaned[messages[e].text]
  ELSE messages[e].text

\* the elements querySelectorAll returns: user messages, then assistant messages
Extract == SelectSeq(<<1, 2>>, LAMBDA e : messages[e].present)

\* the two for-loops up to the next cache miss: hits add the cached value
RECURSIVE Scan(_, _, _)
Scan(queue, total, cache) ==
  IF queue = <<>> THEN [queue |-> <<>>, total |-> total]
  ELSE LET key == CacheKey(Role(Head(queue)), FragmentText(Head(queue)))
       IN IF MapHas(cache, key)
          THEN Scan(Tail(queue), total + MapGet(cache, key), cache)
          ELSE [queue |-> queue, total |-> total]

\* a pass at an await; stale records that the conversation changed after the
\* pass had extracted its fragments
Awaiting(stage, queue, total, hasMessages, key, text) ==
  [stage |-> stage, queue |-> queue, total |-> total,
   hasMessages |-> hasMessages, key |-> key, text |-> text, lost |-> FALSE,
   stale |-> FALSE, latest |-> TRUE]

\* the executing passes, a bag: each waits for a count response, and which
\* of them started first makes no difference to any of them
Active == BagToSet(passes)

\* the number of executing passes
Running == BagCardinality(passes)

HasFreeSlot == Running < MaxPasses

\* a pass that is starting: it has not reached an await yet
NewPass == Awaiting("new", <<>>, 0, FALSE, <<>>, <<>>)

\* the passes executing when another pass begins: latest records that no
\* pass has begun after this one
Superseded(p) == [p EXCEPT !.latest = FALSE]

Earlier == BagOfAll(Superseded, passes)

\* the executing passes without pass p, which is one of them or is beginning
Drop(p) == IF p \in Active THEN passes (-) SetToBag({p}) ELSE Earlier

\* pass p reaches its next await
Put(p, pass) ==
  Drop(p) (+) SetToBag({[pass EXCEPT !.stale = p.stale, !.latest = p.latest]})

\* the passes executing when the conversation changes: they go on as they are
Outdated(p) == [p EXCEPT !.stale = TRUE]

Overtaken == BagOfAll(Outdated, passes)

\* a run of calculateContext code, from its call or from an await to the next
\* await or to its return: how it ended, the snapshots it emitted, and
\* whether the conversation had changed since its pass began
Ran(ended, updates) == [ended |-> ended, updates |-> updates, stale |-> FALSE]

\* no run since the tracker was set up or the conversation changed
NoRun == Ran("none", 0)

SkippedWithSnapshot == Ran("skipped", 1)

\* if (this.isCalculating) return;
Skipped == Ran("skipped", 0)

\* const tokens = await countTokens(...)
Suspended == Ran("suspended", 0)

\* this.contextIndicator.update(...), the cache trim, the return
Completed == Ran("completed", 1)

\* catch (error) { }
Failed == Ran("failed", 0)

\* the page changes a message element: its text changes, it appears or goes
DomChange(e, present, text) ==
  /\ messages[e] # [present |-> present, text |-> text]
  /\ present \/ text = messages[e].text
  /\ messages' = [messages EXCEPT ![e] = [present |-> present, text |-> text]]

UnclearedTimers == timers

\* clearTimeout of the timer the handle refers to
ClearedTimers == IF calculationTimeout = "pending" THEN timers - 1 ELSE timers

\* the handle after clearTimeout
ClearedHandle == IF calculationTimeout = "pending" THEN "done" ELSE calculationTimeout

\* a debounce timer fires: the one the handle refers to, or another one
TimerFires(held) ==
  IF held
  THEN /\ calculationTimeout = "pending"
       /\ calculationTimeout' = "done"
       /\ timers' = timers - 1
  ELSE /\ timers > (IF calculationTimeout = "pending" THEN 1 ELSE 0)
       /\ timers' = timers - 1
       /\ UNCHANGED calculationTimeout

-----------------------------------------------------------------------------
(* Claude content script: ClaudeContextTracker *)

isNewChat == location = "/new" \/ location = "/"

\* lines 498-523 and the finally: snapshot, cache trim, isCalculating := false
ClaudeFinish(p, total, hasMessages, cache) ==
  LET shouldKeepLoading == ~hasCompletedInitialLoad /\ ~hasMessages /\ ~isNewChat
  IN /\ hasCompletedInitialLoad' =
          (hasCompletedInitialLoad \/ hasMessages \/ isNewChat)
     /\ indicator' = Update(total, ClaudeLimit, shouldKeepLoading, FALSE)
     /\ lastRun' = [Completed EXCEPT !.stale = p.stale]
     /\ tokenCache' = TrimCache(cache)
     /\ isCalculating' = FALSE
     /\ passes' = Drop(p)

ClaudeAbortWithoutFinally(p, cache) ==
  /\ tokenCache' = cache
  /\ passes' = Drop(p)
  /\ lastRun' = Failed
  /\ UNCHANGED <<isCalculating, hasCompletedInitialLoad, indicator>>

ClaudeAbortShowingZero(p, cache) ==
  /\ tokenCache' = cache
  /\ isCalculating' = FALSE
  /\ passes' = Drop(p)
  /\ lastRun' = Failed
  /\ indicator' = Update(0, ClaudeLimit, FALSE, FALSE)
  /\ UNCHANGED hasCompletedInitialLoad

\* catch (error) {} finally { this.isCalculating = false }
ClaudeAbort(p, cache) ==
  /\ tokenCache' = cache
  /\ isCalculating' = FALSE
  /\ passes' = Drop(p)
  /\ lastRun' = Failed
  /\ UNCHANGED <<hasCompletedInitialLoad, indicator>>

\* the body of calculateContext from a loop position up to its next await
ClaudeProceed(p, queue, total, hasMessages, cache) ==
  LET s == Scan(queue, total, cache)
  IN IF s.queue # <<>>
     THEN LET text == FragmentText(Head(s.queue))
          IN /\ passes' = Put(p,
                  Awaiting("msg", s.queue, s.total, hasMessages,
                           CacheKey(Role(Head(s.queue)), text), text))
             /\ tokenCache' = cache
             /\ isCalculating' = TRUE
             /\ lastRun' = Suspended
             /\ UNCHANGED <<hasCompletedInitialLoad, indicator>>
     ELSE IF inputText # <<>>
     THEN /\ passes' = Put(p,
                  Awaiting("input", <<>>, s.total, hasMessages, <<>>, inputText))
          /\ tokenCache' = cache
          /\ isCalculating' = TRUE
          /\ lastRun' = Suspended
          /\ UNCHANGED <<hasCompletedInitialLoad, indicator>>
     ELSE ClaudeFinish(p, s.total, hasMessages, cache)

AlreadyCalculatingIgnored == FALSE

\* if (this.isCalculating) return;
AlreadyCalculating == isCalculating

\* calculateContext(): returns at once when a pass is running
calculateContext ==
  IF AlreadyCalculating
  THEN /\ lastRun' = Skipped
       /\ UNCHANGED <<tokenCache, passes, isCalculating, hasCompletedInitialLoad,
                      indicator, unseen, missed>>
  ELSE /\ HasFreeSlot
       /\ ClaudeProceed(NewPass, Extract, 0, Extract # <<>>, tokenCache)
       /\ unseen' = "none"
       /\ missed' = FALSE

\* scheduleCalculation(): cancel the pending timer, skip while calculating,
\* else start the 500 ms debounce timer
scheduleCalculation ==
  IF isCalculating
  THEN /\ timers' = ClearedTimers
       /\ calculationTimeout' = ClearedHandle
  ELSE /\ ClearedTimers < MaxTimers
       /\ timers' = ClearedTimers + 1
       /\ calculationTimeout' = "pending"

\* this.observer = new MutationObserver(...): the observer this.observer
\* referred to stays connected
Replaced == IF observer THEN Min(leaked + 1, MaxLeaked) ELSE leaked

\* observeChat(): observe the container, or retry up to maxRetries times;
\* found is whether the page has the chat container now, rc is this.retryCount
\* and pending the retry timers still pending
observeChat(found, rc, pending) ==
  /\ attempts' = Min(attempts + 1, MaxAttempts)
  /\ IF found
     THEN /\ observer' = TRUE
          /\ leaked' = Replaced
          /\ inputListening' = TRUE
          /\ retryCount' = rc
          /\ retryTimers' = pending
     ELSE IF rc < maxRetries
     THEN /\ pending < MaxRetryTimers
          /\ retryCount' = rc + 1
          /\ retryTimers' = pending + 1
          /\ UNCHANGED <<observer, leaked, inputListening>>
     ELSE /\ retryCount' = rc
          /\ retryTimers' = pending
          /\ UNCHANGED <<observer, leaked, inputListening>>

\* one more notification that no pass has started after
Noted == IF unseen = "none" THEN "one" ELSE "several"

\* a chat observer is connected
Observed == observer \/ leaked > 0

\* a notification of the chat observer, the input observer or the input listener
ClaudeNotify ==
  /\ scheduleCalculation
  /\ unseen' = Noted
  /\ missed' = (missed \/ isCalculating)

Silent == UNCHANGED <<timerVars, unseen, missed>>

ClaudeDomMutation(e, present, text) ==
  /\ tracker = "claude"
  /\ DomChange(e, present, text)
  /\ IF Observed THEN ClaudeNotify ELSE Silent
  /\ UNCHANGED <<tracker, location, currentUrl, inputText, passVars, initTimer,
                 switchTimers, discoveryVars, sideVars>>

ClaudeInputEvent(text) ==
  /\ tracker = "claude"
  /\ text # inputText
  /\ inputText' = text
  /\ IF inputListening THEN ClaudeNotify ELSE Silent
  /\ UNCHANGED <<tracker, location, currentUrl, messages, passVars, initTimer,
                 switchTimers, discoveryVars, sideVars>>

\* setup(): setTimeout(() => this.calculateContext(true), 200)
ClaudeInitialTimer ==
  /\ tracker = "claude"
  /\ initTimer
  /\ initTimer' = FALSE
  /\ calculateContext
  /\ UNCHANGED <<tracker, location, currentUrl, messages, inputText, timerVars,
                 switchTimers, discoveryVars, sideVars>>

\* the debounce timer of scheduleCalculation fires
ClaudeDebounceFire(held) ==
  /\ tracker = "claude"
  /\ TimerFires(held)
  /\ calculateContext
  /\ UNCHANGED <<tracker, location, currentUrl, messages, inputText, initTimer,
                 switchTimers, discoveryVars, sideVars>>

\* the response of a count request arrives and the pass resumes
ClaudeDeliver(p, outcome) ==
  /\ tracker = "claude"
  /\ p \in Active
  /\ ~p.lost
  /\ LET r == countTokens(p.text, outcome)
     IN IF r.status = "rejected"
        THEN ClaudeAbort(p, tokenCache)
        ELSE IF p.stage = "msg"
        THEN ClaudeProceed(p, Tail(p.queue), p.total + r.value,
                           p.hasMessages,
                           MapSet(tokenCache, p.key, r.value, r.src))
        ELSE ClaudeFinish(p, p.total + r.value, p.hasMessages,
                          tokenCache)
  /\ UNCHANGED <<tracker, location, currentUrl, messages, inputText, timerVars,
                 initTimer, switchTimers, discoveryVars, sideVars, unseen, missed>>

\* a pass resumes and a statement of its try block throws
ClaudeThrow(p) ==
  /\ tracker = "claude"
  /\ p \in Active
  /\ ~p.lost
  /\ ClaudeAbort(p, tokenCache)
  /\ UNCHANGED <<tracker, location, currentUrl, messages, inputText, timerVars,
                 initTimer, switchTimers, discoveryVars, sideVars, unseen, missed>>

\* the response of a count request will never arrive
LoseResponse(p) ==
  /\ tracker = "claude"
  /\ p \in Active
  /\ ~p.lost
  /\ passes' = Put(p, [p EXCEPT !.lost = TRUE])
  /\ UNCHANGED <<tracker, location, currentUrl, messages, inputText, tokenCache,
                 isCalculating, hasCompletedInitialLoad, indicator, lastRun, timerVars,
                 initTimer, switchTimers, discoveryVars, sideVars, unseen, missed>>

\* the page navigates to another conversation (single-page navigation)
Navigate(url) ==
  /\ tracker = "claude"
  /\ url # location
  /\ location' = url
  /\ UNCHANGED <<tracker, currentUrl, messages, inputText, passVars, timerVars,
                 initTimer, switchTimers, discoveryVars, sideVars, unseen, missed>>

SameUrlIgnored == FALSE

\* if (newUrl === this.currentUrl) return;
SameUrl == location = currentUrl

\* handleChatSwitch(), called by the URL poll, popstate or the history hooks
ClaudeHandleChatSwitch ==
  /\ tracker = "claude"
  /\ IF SameUrl
     THEN UNCHANGED vars
     ELSE /\ switchTimers < MaxSwitchTimers
          /\ currentUrl' = location
          /\ tokenCache' = <<>>
          /\ hasCompletedInitialLoad' = FALSE
          /\ observer' = FALSE
          /\ indicator' = Update(0, ClaudeLimit, TRUE, FALSE)
          /\ switchTimers' = switchTimers + 1
          /\ passes' = Overtaken
          /\ lastRun' = NoRun
          /\ attempts' = 0
          /\ UNCHANGED <<tracker, location, messages, inputText,
                         isCalculating, timerVars, initTimer, retryCount,
                         retryTimers, lateTimers, retries, leaked,
                         inputListening, sideVars, unseen, missed>>

\* the 500 ms timer of handleChatSwitch: retryCount := 0, observeChat(),
\* scheduleCalculation()
ClaudeSwitchTimer(found) ==
  /\ tracker = "claude"
  /\ switchTimers > 0
  /\ switchTimers' = switchTimers - 1
  /\ observeChat(found, 0, retryTimers)
  /\ scheduleCalculation
  /\ UNCHANGED <<tracker, location, currentUrl, messages, inputText, passVars,
                 initTimer, lateTimers, retries, sideVars, unseen, missed>>

\* setTimeout(() => this.observeChat(), 1000) fires
ClaudeRetryTimer(found) ==
  /\ tracker = "claude"
  /\ retryTimers > 0
  /\ observeChat(found, retryCount, retryTimers - 1)
  /\ UNCHANGED <<tracker, location, currentUrl, messages, inputText, passVars,
                 timerVars, initTimer, switchTimers, lateTimers, retries, sideVars,
                 unseen, missed>>

-----------------------------------------------------------------------------
(* ChatGPT content script: ChatGPTContextTracker *)

\* lines 470-498: system prompt estimate, snapshot, cache trim
GptFinish(p, total, hasMessages, cache) ==
  /\ indicator' = Update(IF hasMessages THEN total + SystemPromptEstimate ELSE total,
                         GptLimit, FALSE, FALSE)
  /\ lastRun' = [Completed EXCEPT !.stale = p.stale]
  /\ tokenCache' = TrimCache(cache)
  /\ passes' = Drop(p)

\* catch (error) { console.error(...) }
GptAbort(p, cache) ==
  /\ tokenCache' = cache
  /\ passes' = Drop(p)
  /\ lastRun' = Failed
  /\ UNCHANGED indicator

\* the body of calculateContext from a loop position up to its next await
GptProceed(p, queue, total, hasMessages, cache) ==
  LET s == Scan(queue, total, cache)
  IN IF s.queue # <<>>
     THEN LET text == FragmentText(Head(s.queue))
          IN /\ passes' = Put(p,
                  Awaiting("msg", s.queue, s.total, hasMessages,
                           CacheKey(Role(Head(s.queue)), text), text))
             /\ tokenCache' = cache
             /\ lastRun' = Suspended
             /\ UNCHANGED indicator
     ELSE IF inputText # <<>>
     THEN /\ passes' = Put(p,
                  Awaiting("input", <<>>, s.total, hasMessages, <<>>, inputText))
          /\ tokenCache' = cache
          /\ lastRun' = Suspended
          /\ UNCHANGED indicator
     ELSE GptFinish(p, s.total, hasMessages, cache)

\* calculateContextDebounced(): cancel the pending timer, start a 100 ms one
calculateContextDebounced ==
  /\ ClearedTimers < MaxTimers
  /\ timers' = ClearedTimers + 1
  /\ calculationTimeout' = "pending"

GptNotify ==
  /\ calculateContextDebounced
  /\ unseen' = Noted
  /\ UNCHANGED missed

GptDomMutation(e, present, text) ==
  /\ tracker = "chatgpt"
  /\ DomChange(e, present, text)
  /\ IF Observed THEN GptNotify ELSE Silent
  /\ UNCHANGED <<tracker, location, currentUrl, inputText, passVars, initTimer,
                 switchTimers, discoveryVars, sideVars>>

\* typing: chatgpt.ts observes the chat container only
GptInputEvent(text) ==
  /\ tracker = "chatgpt"
  /\ text # inputText
  /\ inputText' = text
  /\ UNCHANGED <<tracker, location, currentUrl, messages, passVars, timerVars,
                 initTimer, switchTimers, discoveryVars, sideVars, unseen, missed>>

\* setup(): setTimeout(() => this.calculateContextDebounced(), 100)
GptInitialTimer ==
  /\ tracker = "chatgpt"
  /\ initTimer
  /\ initTimer' = FALSE
  /\ calculateContextDebounced
  /\ UNCHANGED <<tracker, location, currentUrl, messages, inputText, passVars,
                 switchTimers, discoveryVars, sideVars, unseen, missed>>

\* the debounce timer fires: calculateContext() starts, whatever is running
GptDebounceFire(held) ==
  /\ tracker = "chatgpt"
  /\ TimerFires(held)
  /\ HasFreeSlot
  /\ GptProceed(NewPass, Extract, 0, Extract # <<>>, tokenCache)
  /\ unseen' = "none"
  /\ UNCHANGED <<tracker, location, currentUrl, messages, inputText,
                 isCalculating, hasCompletedInitialLoad, initTimer, switchTimers,
                 discoveryVars, sideVars, missed>>

GptDeliver(p, outcome) ==
  /\ tracker = "chatgpt"
  /\ p \in Active
  /\ ~p.lost
  /\ LET r == countTokens(p.text, outcome)
     IN IF r.status = "rejected"
        THEN GptAbort(p, tokenCache)
        ELSE IF p.stage = "msg"
        THEN GptProceed(p, Tail(p.queue), p.total + r.value,
                        p.hasMessages,
                        MapSet(tokenCache, p.key, r.value, r.src))
        ELSE GptFinish(p, p.total + r.value, p.hasMessages,
                       tokenCache)
  /\ UNCHANGED <<tracker, location, currentUrl, messages, inputText,
                 isCalculating, hasCompletedInitialLoad, timerVars, initTimer,
                 switchTimers, discoveryVars, sideVars, unseen, missed>>

\* a pass resumes and a statement of its try block throws
GptThrow(p) ==
  /\ tracker = "chatgpt"
  /\ p \in Active
  /\ ~p.lost
  /\ GptAbort(p, tokenCache)
  /\ UNCHANGED <<tracker, location, currentUrl, messages, inputText,
                 isCalculating, hasCompletedInitialLoad, timerVars, initTimer,
                 switchTimers, discoveryVars, sideVars, unseen, missed>>

\* the addresses of the ChatGPT page: two conversations, one also with a
\* model parameter
GptUrls == {"/c/a", "/c/a?model=x", "/c/a?t=1", "/c/a?model=x&t=1", "/c/b"}

PathA == <<"/", "c", "/", "a">>
ModelEq == <<"m", "o", "d", "e", "l", "=">>

\* the characters of an address, after the origin
UrlChars(url) ==
  CASE url = "/c/a" -> PathA
    [] url = "/c/a?model=x" -> PathA \o <<"?">> \o ModelEq \o <<"x">>
    [] url = "/c/a?t=1" -> PathA \o <<"?", "t", "=", "1">>
    [] url = "/c/a?model=x&t=1" ->
         PathA \o <<"?">> \o ModelEq \o <<"x", "&", "t", "=", "1">>
    [] url = "/c/b" -> <<"/", "c", "/", "b">>
    [] url = "/g" -> <<"/", "g">>
    [] OTHER -> <<"/">>

\* the least number of a nonempty set of numbers
Least(S) == CHOOSE i \in S : \A j \in S : i <= j

\* s.includes(sub)
Includes(s, sub) ==
  \E i \in 1..(Len(s) - Len(sub) + 1) : SubSeq(s, i, i + Len(sub) - 1) = sub

\* s.replace(/[?&]model=[^&]*/, ''): the first match is removed, from its
\* separator up to the next '&' or the end
ReplaceModel(s) ==
  LET starts == {i \in 1..(Len(s) - Len(ModelEq)) :
                   /\ s[i] \in {"?", "&"}
                   /\ SubSeq(s, i + 1, i + Len(ModelEq)) = ModelEq}
  IN IF starts = {} THEN s
     ELSE LET i == Least(starts)
              stops == {j \in (i + 1)..Len(s) : s[j] = "&"}
              e == IF stops = {} THEN Len(s) + 1 ELSE Least(stops)
          IN SubSeq(s, 1, i - 1) \o SubSeq(s, e, Len(s))

\* url.replace(/[?&]model=[^&]*/, '')
WithoutModel(url) == ReplaceModel(UrlChars(url))

\* href.includes('/c/') || href === 'https://chatgpt.com/'
hasNewChat == Includes(UrlChars(location), <<"/", "c", "/">>) \/ location = "/"

\* the page navigates (single-page navigation, or the model parameter changes)
GptNavigate(url) ==
  /\ tracker = "chatgpt"
  /\ url # location
  /\ location' = url
  /\ UNCHANGED <<tracker, currentUrl, messages, inputText, passVars, timerVars,
                 initTimer, switchTimers, discoveryVars, sideVars, unseen, missed>>

\* handleChatSwitch(), called by the URL poll, popstate or the history hooks
GptHandleChatSwitch ==
  /\ tracker = "chatgpt"
  /\ IF SameUrl
     THEN UNCHANGED vars
     ELSE IF WithoutModel(currentUrl) = WithoutModel(location)
     THEN /\ currentUrl' = location
          /\ UNCHANGED <<tracker, location, messages, inputText, passVars,
                         timerVars, initTimer, switchTimers, discoveryVars,
                         sideVars, unseen, missed>>
     ELSE /\ switchTimers < MaxSwitchTimers
          /\ currentUrl' = location
          /\ indicator' = Update(0, GptLimit, FALSE, TRUE)
          /\ tokenCache' = <<>>
          /\ observer' = FALSE
          /\ switchTimers' = switchTimers + 1
          /\ retries' = retries (+) SetToBag({0})
          /\ passes' = Overtaken
          /\ lastRun' = NoRun
          /\ attempts' = 0
          /\ UNCHANGED <<tracker, location, messages, inputText,
                         isCalculating, hasCompletedInitialLoad, timerVars,
                         initTimer, retryCount, retryTimers, lateTimers,
                         leaked, inputListening, sideVars, unseen, missed>>

\* observeChat() of the ChatGPT tracker: observe the container, or try again
\* after 1000 ms; found is whether the page has the chat container now and
\* pending the retry timers still pending
GptObserveChat(found, pending) ==
  /\ attempts' = Min(attempts + 1, MaxAttempts)
  /\ IF found
     THEN /\ observer' = TRUE
          /\ leaked' = Replaced
          /\ retryTimers' = pending
     ELSE /\ pending < MaxRetryTimers
          /\ retryTimers' = pending + 1
          /\ UNCHANGED <<observer, leaked>>

\* a tick of a 300 ms retryInterval of handleChatSwitch that has ticked r times:
\* retries++, and the interval is cleared when messages are there, when the
\* address is a conversation or after maxRetries ticks
GptTick(r, found) ==
  IF Extract # <<>> \/ hasNewChat \/ r + 1 >= GptMaxRetries
  THEN /\ lateTimers < MaxLateTimers
       /\ switchTimers' = switchTimers - 1
       /\ retries' = retries (-) SetToBag({r})
       /\ GptObserveChat(found, retryTimers)
       /\ calculateContextDebounced
       /\ lateTimers' = lateTimers + 1
       /\ UNCHANGED <<tracker, location, currentUrl, messages, inputText,
                      passVars, initTimer, retryCount, inputListening,
                      sideVars, unseen, missed>>
  ELSE /\ retries' = (retries (-) SetToBag({r})) (+) SetToBag({r + 1})
       /\ UNCHANGED <<tracker, location, currentUrl, messages, inputText,
                      passVars, timerVars, initTimer, switchTimers, observer,
                      retryCount, retryTimers, lateTimers, leaked, attempts,
                      inputListening, sideVars, unseen, missed>>

GptRetryInterval(found) ==
  /\ tracker = "chatgpt"
  /\ switchTimers > 0
  /\ \E r \in BagToSet(retries) : GptTick(r, found)

\* setTimeout(() => this.observeChat(), 1000) of the ChatGPT tracker fires
GptRetryTimer(found) ==
  /\ tracker = "chatgpt"
  /\ retryTimers > 0
  /\ GptObserveChat(found, retryTimers - 1)
  /\ UNCHANGED <<tracker, location, currentUrl, messages, inputText, passVars,
                 timerVars, initTimer, switchTimers, retryCount, lateTimers,
                 retries, inputListening, sideVars, unseen, missed>>

\* setTimeout(() => this.calculateContextDebounced(), 1500) fires
GptLateTimer ==
  /\ tracker = "chatgpt"
  /\ lateTimers > 0
  /\ lateTimers' = lateTimers - 1
  /\ calculateContextDebounced
  /\ UNCHANGED <<tracker, location, currentUrl, messages, inputText, passVars,
                 initTimer, switchTimers, observer, retryCount, retryTimers,
                 retries, leaked, attempts, inputListening, sideVars, unseen,
                 missed>>

-----------------------------------------------------------------------------
(* The trackers on their page.  The page has its chat container when the   *)
(* tracker looks for it, so observeChat() succeeds at its first attempt.    *)

NoBridge == [phase |-> "none", text |-> <<>>, provider |-> "none",
             outcome |-> "none", status |-> "none", value |-> 0]

NoCacheOps == [phase |-> "none", inserted |-> 0, added |-> 0, hit |-> FALSE]

Schemes == {"claude", "chatgpt"}

\* a request the background script has not received
\* late is history: the request arrived after initPromise had rejected
NoRequest == [provider |-> "none", pc |-> "none", encoder |-> 0,
              responses |-> 0, result |-> "none", late |-> FALSE]

\* the background script when it is loaded: no encoder, no initPromise
NoWorker == [encoder |-> [sc \in Schemes |-> 0], initPromise |-> "null",
             loads |-> 0, built |-> [sc \in Schemes |-> 0],
             requests |-> [i \in 1..MaxRequests |-> NoRequest]]

Messages == {m \in [Elems -> [present : BOOLEAN, text : {TxtHi, TxtOkCopy}]] :
               \A e \in Elems : m[e].text \in MsgTexts(e)}

\* the state setup() leaves on a page showing one of the given message lists:
\* indicator shown, chat observed, initial timer pending
Setup(pages) ==
  /\ tracker \in {"claude", "chatgpt"}
  /\ location \in (IF tracker = "claude" THEN Urls ELSE {"/c/a"})
  /\ currentUrl = location
  /\ messages \in pages
  /\ inputText = <<>>
  /\ tokenCache = <<>>
  /\ passes = EmptyBag
  /\ isCalculating = FALSE
  /\ calculationTimeout = "none"
  /\ timers = 0
  /\ initTimer = TRUE
  /\ switchTimers = 0
  /\ hasCompletedInitialLoad = FALSE
  /\ observer = TRUE
  /\ inputListening = (tracker = "claude")
  /\ retryCount = 0
  /\ retryTimers = 0
  /\ lateTimers = 0
  /\ retries = EmptyBag
  /\ leaked = 0
  /\ attempts = 1
  /\ indicator = (IF tracker = "claude"
                  THEN Update(0, ClaudeLimit, Extract # <<>>, FALSE)
                  ELSE Update(0, GptLimit, FALSE, TRUE))
  /\ bridge = NoBridge
  /\ cacheOps = NoCacheOps
  /\ worker = NoWorker
  /\ lastRun = NoRun
  /\ unseen = "none"
  /\ missed = FALSE

Init == Setup(Messages)

\* the callbacks of the Claude tracker and the events of its page
NextClaude ==
  \/ \E e \in Elems, present \in BOOLEAN : \E text \in MsgTexts(e) :
       ClaudeDomMutation(e, present, text)
  \/ \E text \in InputTexts : ClaudeInputEvent(text)
  \/ ClaudeInitialTimer
  \/ \E held \in BOOLEAN : ClaudeDebounceFire(held)
  \/ \E p \in Active, outcome \in Outcomes : ClaudeDeliver(p, outcome)
  \/ \E p \in Active : LoseResponse(p)
  \/ \E url \in Urls : Navigate(url)
  \/ ClaudeHandleChatSwitch
  \/ ClaudeSwitchTimer(TRUE)

\* the callbacks of the ChatGPT tracker and the events of its page
NextGpt ==
  \/ \E e \in Elems, present \in BOOLEAN : \E text \in MsgTexts(e) :
       GptDomMutation(e, present, text)
  \/ \E text \in InputTexts : GptInputEvent(text)
  \/ GptInitialTimer
  \/ \E held \in BOOLEAN : GptDebounceFire(held)
  \/ \E p \in Active, outcome \in Outcomes : GptDeliver(p, outcome)

Next == NextClaude \/ NextGpt

Spec == Init /\ [][Next]_vars

\* the chat switch of the ChatGPT tracker
NextGptSwitch ==
  \/ \E url \in GptUrls : GptNavigate(url)
  \/ GptHandleChatSwitch
  \/ GptRetryInterval(TRUE)
  \/ GptLateTimer

\* both trackers with their chat switches, on a page where only the first
\* message comes and goes and every count request succeeds
NextSwitch ==
  \/ \E present \in BOOLEAN : ClaudeDomMutation(1, present, TxtHi)
  \/ ClaudeInitialTimer
  \/ \E held \in BOOLEAN : ClaudeDebounceFire(held)
  \/ \E p \in Active : ClaudeDeliver(p, "success")
  \/ \E url \in Urls : Navigate(url)
  \/ ClaudeHandleChatSwitch
  \/ ClaudeSwitchTimer(TRUE)
  \/ \E present \in BOOLEAN : GptDomMutation(1, present, TxtHi)
  \/ GptInitialTimer
  \/ \E held \in BOOLEAN : GptDebounceFire(held)
  \/ \E p \in Active : GptDeliver(p, "success")
  \/ NextGptSwitch

SpecSwitch == Init /\ [][NextSwitch]_vars

\* a conversation whose assistant message repeats the user's message
EchoMessages == [Elems -> [present : BOOLEAN, text : {TxtHi}]]

\* the passes of both trackers over that conversation
NextEcho ==
  \/ \E e \in Elems, present \in BOOLEAN : ClaudeDomMutation(e, present, TxtHi)
  \/ ClaudeInitialTimer
  \/ \E held \in BOOLEAN : ClaudeDebounceFire(held)
  \/ \E p \in Active, outcome \in Outcomes : ClaudeDeliver(p, outcome)
  \/ \E e \in Elems, present \in BOOLEAN : GptDomMutation(e, present, TxtHi)
  \/ GptInitialTimer
  \/ \E held \in BOOLEAN : GptDebounceFire(held)
  \/ \E p \in Active, outcome \in Outcomes : GptDeliver(p, outcome)

SpecEcho == Setup(EchoMessages) /\ [][NextEcho]_vars

\* the passes of both trackers when statements of calculateContext may throw
NextThrow ==
  \/ \E e \in Elems, present \in BOOLEAN : \E text \in MsgTexts(e) :
       ClaudeDomMutation(e, present, text)
  \/ ClaudeInitialTimer
  \/ \E held \in BOOLEAN : ClaudeDebounceFire(held)
  \/ \E p \in Active : ClaudeDeliver(p, "success")
  \/ \E p \in Active : ClaudeThrow(p)
  \/ \E e \in Elems, present \in BOOLEAN : \E text \in MsgTexts(e) :
       GptDomMutation(e, present, text)
  \/ GptInitialTimer
  \/ \E held \in BOOLEAN : GptDebounceFire(held)
  \/ \E p \in Active : GptDeliver(p, "success")
  \/ \E p \in Active : GptThrow(p)

SpecThrow == Init /\ [][NextThrow]_vars

\* texts longer than the key prefix: LongA and LongB differ after their first
\* PrefixLen characters only, LongZ differs from both at its first character
LongA == [i \in 1..(PrefixLen + 1) |-> IF i <= PrefixLen THEN "a" ELSE "b"]
LongB == [i \in 1..(PrefixLen + 2) |-> IF i <= PrefixLen THEN "a" ELSE "c"]
LongZ == [i \in 1..(PrefixLen + 1) |-> IF i = 1 THEN "z" ELSE "a"]

LongTexts == {LongA, LongB, LongZ}

\* a page whose user message is rewritten (edited or regenerated)
InitPrefix ==
  Setup({[e \in Elems |-> IF e = 1 THEN [present |-> TRUE, text |-> text]
                          ELSE [present |-> FALSE, text |-> TxtOkCopy]] :
           text \in LongTexts})

NextPrefix ==
  \/ \E text \in LongTexts : ClaudeDomMutation(1, TRUE, text)
  \/ \E text \in InputTexts : ClaudeInputEvent(text)
  \/ ClaudeInitialTimer
  \/ \E held \in BOOLEAN : ClaudeDebounceFire(held)
  \/ \E p \in Active, outcome \in {"success", "failure"} : ClaudeDeliver(p, outcome)
  \/ \E text \in LongTexts : GptDomMutation(1, TRUE, text)
  \/ \E text \in InputTexts : GptInputEvent(text)
  \/ GptInitialTimer
  \/ \E held \in BOOLEAN : GptDebounceFire(held)
  \/ \E p \in Active, outcome \in {"success", "failure"} : GptDeliver(p, outcome)

SpecPrefix == InitPrefix /\ [][NextPrefix]_vars

\* both trackers on pages whose chat container may be missing: navigation,
\* the chat switch and the discovery retries
NextDiscovery ==
  \/ \E url \in Urls : Navigate(url)
  \/ ClaudeHandleChatSwitch
  \/ \E found \in BOOLEAN : ClaudeSwitchTimer(found)
  \/ \E found \in BOOLEAN : ClaudeRetryTimer(found)
  \/ \E url \in GptUrls : GptNavigate(url)
  \/ GptHandleChatSwitch
  \/ \E found \in BOOLEAN : GptRetryInterval(found)
  \/ \E found \in BOOLEAN : GptRetryTimer(found)
  \/ GptLateTimer

SpecDiscovery == Init /\ [][NextDiscovery]_vars

\* the addresses of the ChatGPT page, one of them not a conversation
PollUrls == GptUrls \cup {"/g"}

\* the ChatGPT tracker on a page that changes its address, with the content
\* of the new conversation arriving late or not at all
NextPolling ==
  \/ \E url \in PollUrls : GptNavigate(url)
  \/ GptHandleChatSwitch
  \/ GptRetryInterval(TRUE)
  \/ GptLateTimer
  \/ \E present \in BOOLEAN : GptDomMutation(1, present, TxtHi)
  \/ GptInitialTimer
  \/ \E held \in BOOLEAN : GptDebounceFire(held)
  \/ \E p \in Active : GptDeliver(p, "success")

\* the ChatGPT tracker alone
InitGpt == Init /\ tracker = "chatgpt"

SpecPolling == InitGpt /\ [][NextPolling]_vars

\* the Claude tracker alone
InitClaude == Init /\ tracker = "claude"

\* the Claude tracker when statements of calculateContext may throw
NextFlag == NextClaude \/ (\E p \in Active : ClaudeThrow(p))

SpecFlag == InitClaude /\ [][NextFlag]_vars

SpecClaude == InitClaude /\ [][NextClaude]_vars

\* the initial timer of setup() fires
InitialTimerStep == ClaudeInitialTimer \/ GptInitialTimer

\* a pending debounce timer fires
DebounceStep ==
  \E held \in BOOLEAN : ClaudeDebounceFire(held) \/ GptDebounceFire(held)

\* the response of a count request that is not lost arrives
DeliverStep ==
  \E p \in Active, outcome \in Outcomes :
    ClaudeDeliver(p, outcome) \/ GptDeliver(p, outcome)

\* timers fire, the URL poll runs, and responses that are not lost arrive
Fairness ==
  /\ WF_vars(InitialTimerStep)
  /\ WF_vars(DebounceStep)
  /\ WF_vars(ClaudeHandleChatSwitch)
  /\ WF_vars(ClaudeSwitchTimer(TRUE))
  /\ WF_vars(DeliverStep)

FairSpec == Init /\ [][Next]_vars /\ Fairness

-----------------------------------------------------------------------------
(* The request bridge on its own: one countTokens call for each text length *)

TrackerIdle ==
  /\ tracker = "none"
  /\ location = "/new"
  /\ currentUrl = "/new"
  /\ messages = [e \in Elems |-> [present |-> FALSE, text |-> TxtHi]]
  /\ inputText = <<>>
  /\ passes = EmptyBag
  /\ isCalculating = FALSE
  /\ calculationTimeout = "none"
  /\ timers = 0
  /\ initTimer = FALSE
  /\ switchTimers = 0
  /\ hasCompletedInitialLoad = FALSE
  /\ observer = FALSE
  /\ retryCount = 0
  /\ retryTimers = 0
  /\ lateTimers = 0
  /\ retries = EmptyBag
  /\ leaked = 0
  /\ attempts = 0
  /\ inputListening = FALSE
  /\ unseen = "none"
  /\ missed = FALSE
  /\ worker = NoWorker
  /\ lastRun = NoRun

TrackerOff == TrackerIdle /\ indicator = Update(0, 0, FALSE, TRUE)

trackerVars == <<tracker, location, currentUrl, messages, inputText, passes,
                 isCalculating, calculationTimeout, timers, initTimer,
                 switchTimers, hasCompletedInitialLoad, observer, retryCount,
                 retryTimers, lateTimers, retries, leaked, attempts,
                 inputListening, indicator, unseen, missed, worker, lastRun>>

TextOfLen(n) == [i \in 1..n |-> "x"]

InitBridge ==
  /\ TrackerOff
  /\ tokenCache = <<>>
  /\ cacheOps = NoCacheOps
  /\ bridge \in {[phase |-> "called", text |-> TextOfLen(n), provider |-> pr,
                  outcome |-> "none", status |-> "pending", value |-> 0] :
                   n \in 0..MaxTextLen, pr \in {"claude", "chatgpt"}}

\* chrome.runtime.sendMessage({type: 'COUNT_TOKENS', text, provider})
BridgeSend ==
  /\ bridge.phase = "called"
  /\ bridge' = [bridge EXCEPT !.phase = "sent"]
  /\ UNCHANGED <<trackerVars, tokenCache, cacheOps>>

\* the await ends and countTokens returns
BridgeSettle(outcome) ==
  /\ bridge.phase = "sent"
  /\ LET r == countTokens(bridge.text, outcome)
     IN bridge' = [bridge EXCEPT !.phase = "settled", !.outcome = outcome,
                                 !.status = r.status, !.value = r.value]
  /\ UNCHANGED <<trackerVars, tokenCache, cacheOps>>

NextBridge == BridgeSend \/ \E outcome \in Outcomes : BridgeSettle(outcome)

SpecBridge == InitBridge /\ [][NextBridge]_vars

-----------------------------------------------------------------------------
(* The token cache on its own: the cache operations of one pass, from a    *)
(* cache that earlier passes filled with n distinct keys                    *)

\* the key and the count of the j-th distinct message
KeyOf(j) == CacheKey(IF j % 2 = 1 THEN "user" ELSE "assistant", <<j>>)
ValueOf(j) == j % 7
EntryOf(j) == [key |-> KeyOf(j), value |-> ValueOf(j), src |-> "service", at |-> j]

InitCache ==
  /\ TrackerOff
  /\ bridge = NoBridge
  /\ \E n \in 0..MaxCacheSize :
       /\ tokenCache = [j \in 1..n |-> EntryOf(j)]
       /\ cacheOps = [phase |-> "pass", inserted |-> n, added |-> 0, hit |-> FALSE]

\* a miss: this.tokenCache.set(cacheKey, tokens) with a key not yet present
CacheMiss ==
  /\ cacheOps.phase = "pass"
  /\ cacheOps.added < MaxInserts
  /\ tokenCache' = MapSet(tokenCache, KeyOf(cacheOps.inserted + 1),
                          ValueOf(cacheOps.inserted + 1), "service")
  /\ cacheOps' = [cacheOps EXCEPT !.inserted = @ + 1, !.added = @ + 1]
  /\ UNCHANGED <<trackerVars, bridge>>

\* a hit: this.tokenCache.has(cacheKey), this.tokenCache.get(cacheKey)
CacheHit(i) ==
  /\ cacheOps.phase = "pass"
  /\ ~cacheOps.hit
  /\ i \in DOMAIN tokenCache
  /\ MapHas(tokenCache, tokenCache[i].key)
  /\ MapGet(tokenCache, tokenCache[i].key) = tokenCache[i].value
  /\ cacheOps' = [cacheOps EXCEPT !.hit = TRUE]
  /\ UNCHANGED <<trackerVars, bridge, tokenCache>>

\* the end of the pass: if (this.tokenCache.size > 1000) keep the last 500
CacheTrim ==
  /\ cacheOps.phase = "pass"
  /\ tokenCache' = TrimCache(tokenCache)
  /\ cacheOps' = [cacheOps EXCEPT !.phase = "trimmed"]
  /\ UNCHANGED <<trackerVars, bridge>>

NextCache == CacheMiss \/ (\E i \in {1, Len(tokenCache)} : CacheHit(i)) \/ CacheTrim

SpecCache == InitCache /\ [][NextCache]_vars

-----------------------------------------------------------------------------
(* The indicator element on its own: update() called with any arguments,    *)
(* in any order.  The state of the element is what update() writes: the     *)
(* texts, the tooltip, the colours and the animation of the container, and  *)
(* the style elements it adds to the document.                               *)

\* the limits the indicator is given
Limits == {10, 300}

\* Math.round((currentTokens / maxTokens) * 100)
percentage(currentTokens, maxTokens) ==
  (200 * currentTokens + maxTokens) \div (2 * maxTokens)

\* createContextIndicator(provider): the element before its first update
NoText == [kind |-> "", warningIcon |-> FALSE, current |-> 0, max |-> 0]

NoTooltip ==
  [kind |-> "", current |-> 0, max |-> 0, remaining |-> 0, usage |-> 0,
   approaching |-> FALSE, scrollWarning |-> FALSE, systemPromptNote |-> ""]

NewIndicator ==
  [tokenText |-> NoText, percentText |-> <<>>, tooltip |-> NoTooltip,
   backgroundColor |-> "white", borderColor |-> "#e0e0e0", color |-> "",
   animation |-> "", styles |-> {}]

\* update(...) with isLoading: lines 84-94
ShowLoading(el) ==
  [el EXCEPT !.tokenText = [NoText EXCEPT !.kind = "Loading..."],
             !.percentText = <<>>,
             !.tooltip = [NoTooltip EXCEPT !.kind = "Updating context window..."],
             !.backgroundColor = "#f5f5f5",
             !.borderColor = "#bdbdbd",
             !.color = "#757575",
             !.animation = "pulse",
             !.styles = @ \cup {"pulse"}]

\* update(...) without isLoading: lines 96-148
ShowCount(el, provider, currentTokens, maxTokens, hasScrollableContent) ==
  LET pct == percentage(currentTokens, maxTokens)
      tier == IF pct > 90 THEN "red" ELSE IF pct > 70 THEN "yellow" ELSE "green"
  IN [el EXCEPT
        !.tokenText = [kind |-> "current / max",
                       warningIcon |-> hasScrollableContent,
                       current |-> currentTokens, max |-> maxTokens],
        !.percentText = <<pct>>,
        !.tooltip = [kind |-> "Context Window Usage",
                     current |-> currentTokens, max |-> maxTokens,
                     remaining |-> maxTokens - currentTokens, usage |-> pct,
                     approaching |-> pct > 90,
                     scrollWarning |-> hasScrollableContent,
                     systemPromptNote |-> provider],
        !.animation = IF pct > 90 /\ pct >= 100 THEN "flash" ELSE "none",
        !.styles = IF pct > 90 /\ pct >= 100 THEN @ \cup {"flash"} ELSE @,
        !.backgroundColor = CASE tier = "red" -> "#ffebee"
                              [] tier = "yellow" -> "#fff3e0"
                              [] OTHER -> "#e8f5e9",
        !.borderColor = CASE tier = "red" -> "#f44336"
                          [] tier = "yellow" -> "#ff9800"
                          [] OTHER -> "#4caf50",
        !.color = CASE tier = "red" -> "#c62828"
                    [] tier = "yellow" -> "#e65100"
                    [] OTHER -> "#2e7d32"]

updateKeepingAnimation(el, provider, currentTokens, maxTokens, hasScrollableContent, isLoading) ==
  IF isLoading THEN ShowLoading(el)
  ELSE [ShowCount(el, provider, currentTokens, maxTokens, hasScrollableContent)
          EXCEPT !.animation = IF percentage(currentTokens, maxTokens) >= 100
                               THEN "flash" ELSE el.animation]

\* update(currentTokens, maxTokens, hasScrollableContent, isLoading) applied
\* to the element el of createContextIndicator(provider)
update(el, provider, currentTokens, maxTokens, hasScrollableContent, isLoading) ==
  IF isLoading THEN ShowLoading(el)
  ELSE ShowCount(el, provider, currentTokens, maxTokens, hasScrollableContent)

\* no call yet
NoCall == [made |-> FALSE, currentTokens |-> 0, maxTokens |-> 0,
           hasScrollableContent |-> FALSE, isLoading |-> FALSE]

\* the arguments of a call
Calls ==
  {[made |-> TRUE, currentTokens |-> c, maxTokens |-> m,
    hasScrollableContent |-> w, isLoading |-> l] :
     m \in Limits, c \in 0..(300 + MaxOver), w \in BOOLEAN, l \in BOOLEAN}

idleVars == <<tracker, location, currentUrl, messages, inputText, passes,
              isCalculating, calculationTimeout, timers, initTimer,
              switchTimers, hasCompletedInitialLoad, observer, retryCount,
              retryTimers, lateTimers, retries, leaked, attempts,
              inputListening, unseen, missed, lastRun>>

InitIndicator ==
  /\ TrackerIdle
  /\ tokenCache = <<>>
  /\ bridge = NoBridge
  /\ cacheOps = NoCacheOps
  /\ \E provider \in {"claude", "chatgpt"} :
       indicator = [provider |-> provider, el |-> NewIndicator, call |-> NoCall]

\* one call of update()
IndicatorUpdate(call) ==
  /\ call.currentTokens <= call.maxTokens + MaxOver
  /\ indicator' = [indicator EXCEPT
                     !.el = update(indicator.el, indicator.provider,
                                   call.currentTokens, call.maxTokens,
                                   call.hasScrollableContent, call.isLoading),
                     !.call = call]
  /\ UNCHANGED <<idleVars, tokenCache, bridge, cacheOps, worker>>

NextIndicator == \E call \in Calls : IndicatorUpdate(call)

SpecIndicator == InitIndicator /\ [][NextIndicator]_vars

-----------------------------------------------------------------------------
(* The background script on its own: the COUNT_TOKENS handler of           *)
(* installMessageHandler, one action for each run of a handler up to its    *)
(* next await.  An encoder is identified by the number of its construction. *)

\* sendResponse(...) and the end of the handler
Respond(req, result) ==
  [req EXCEPT !.pc = "done", !.responses = @ + 1, !.result = result]

Uncaught(req) == [req EXCEPT !.pc = "done"]

\* catch (error) { sendResponse({ success: false, error: error.message }) }
Caught(req) == Respond(req, "failure")

WorkerReceiveRetrying(i, provider) ==
  /\ worker.requests[i].pc = "none"
  /\ \A j \in 1..(i - 1) : worker.requests[j].pc # "none"
  /\ IF worker.encoder[provider] # 0
     THEN worker' = [worker EXCEPT
            !.requests[i] = [@ EXCEPT !.provider = provider,
                                      !.pc = "gotEncoder",
                                      !.encoder = worker.encoder[provider]]]
     ELSE worker' = [worker EXCEPT
            !.initPromise = IF @ \in {"null", "rejected"} THEN "pending" ELSE @,
            !.loads = IF worker.initPromise \in {"null", "rejected"}
                      THEN Min(@ + 1, MaxRequests) ELSE @,
            !.requests[i] = [@ EXCEPT !.provider = provider,
                                      !.pc = "awaitInit",
                                      !.late = worker.initPromise = "rejected"]]
  /\ UNCHANGED <<idleVars, indicator, tokenCache, bridge, cacheOps>>

\* the handler starts: getClaudeEncoder() or getGPTEncoder() up to its await
WorkerReceive(i, provider) ==
  /\ worker.requests[i].pc = "none"
  /\ \A j \in 1..(i - 1) : worker.requests[j].pc # "none"
  /\ IF worker.encoder[provider] # 0
     THEN worker' = [worker EXCEPT
            !.requests[i] = [@ EXCEPT !.provider = provider,
                                      !.pc = "gotEncoder",
                                      !.encoder = worker.encoder[provider]]]
     ELSE worker' = [worker EXCEPT
            !.initPromise = IF @ = "null" THEN "pending" ELSE @,
            !.loads = IF worker.initPromise = "null" THEN @ + 1 ELSE @,
            !.requests[i] = [@ EXCEPT !.provider = provider,
                                      !.pc = "awaitInit",
                                      !.late = worker.initPromise = "rejected"]]
  /\ UNCHANGED <<idleVars, indicator, tokenCache, bridge, cacheOps>>

\* loadWasm() ends: init() resolves, or the fetch or the instantiation fails
WasmSettle(loaded) ==
  /\ worker.initPromise = "pending"
  /\ worker' = [worker EXCEPT
                  !.initPromise = IF loaded THEN "fulfilled" ELSE "rejected"]
  /\ UNCHANGED <<idleVars, indicator, tokenCache, bridge, cacheOps>>

\* await ensureInit() ends: new Tiktoken(...) is stored, or the rejection or
\* an exception of the constructor reaches the catch of the handler
WorkerResume(i, constructed) ==
  /\ worker.requests[i].pc = "awaitInit"
  /\ worker.initPromise \in {"fulfilled", "rejected"}
  /\ LET req == worker.requests[i]
         sc == req.provider
     IN IF worker.initPromise = "fulfilled" /\ constructed
        THEN worker' = [worker EXCEPT
               !.built[sc] = @ + 1,
               !.encoder[sc] = worker.built[sc] + 1,
               !.requests[i] = [@ EXCEPT !.pc = "gotEncoder",
                                         !.encoder = worker.built[sc] + 1]]
        ELSE worker' = [worker EXCEPT !.requests[i] = Caught(req)]
  /\ UNCHANGED <<idleVars, indicator, tokenCache, bridge, cacheOps>>

\* encoder.encode(text).length and sendResponse({ success: true, count }), or
\* encode throws
WorkerEncode(i, encoded) ==
  /\ worker.requests[i].pc = "gotEncoder"
  /\ worker' = [worker EXCEPT
                  !.requests[i] = IF encoded THEN Respond(@, "success")
                                  ELSE Caught(@)]
  /\ UNCHANGED <<idleVars, indicator, tokenCache, bridge, cacheOps>>

InitWorker ==
  /\ TrackerOff
  /\ tokenCache = <<>>
  /\ bridge = NoBridge
  /\ cacheOps = NoCacheOps

NextWorker ==
  \/ \E i \in 1..MaxRequests, provider \in Schemes : WorkerReceive(i, provider)
  \/ \E loaded \in BOOLEAN : WasmSettle(loaded)
  \/ \E i \in 1..MaxRequests, constructed \in BOOLEAN : WorkerResume(i, constructed)
  \/ \E i \in 1..MaxRequests, encoded \in BOOLEAN : WorkerEncode(i, encoded)

SpecWorker == InitWorker /\ [][NextWorker]_vars

-----------------------------------------------------------------------------
(* Mutual exclusion of passes *)

\* C1: in the Claude tracker at most one execution of calculateContext is
\* between its start and its end at any time, and isCalculating tells
\* whether there is one
C1_ClaudeNoOverlap ==
  tracker = "claude" =>
    /\ Running <= 1
    /\ isCalculating <=> (Running = 1)

\* a pass is running, and the initial timer and a debounce timer have both
\* come and gone
C1_Witness ==
  /\ tracker = "claude"
  /\ Running = 1
  /\ ~initTimer
  /\ calculationTimeout = "done"
  /\ timers = 0
  /\ ~missed

\* C2: in the ChatGPT tracker no second pass starts while an earlier one is
\* still awaiting a count response
C2_GptNoOverlap == tracker = "chatgpt" => Running <= 1

\* C3: in the Claude tracker, once a pass that notifications arrived during
\* has ended, the one trailing pass owed for them has started or is scheduled
C3_TrailingPassOwed ==
  (tracker = "claude" /\ missed /\ ~isCalculating) => timers > 0

\* C5: while no pass is running, a notification leaves exactly one debounce
\* timer pending however many came before it, and when that timer fires no
\* timer remains and the one pass it starts follows every notification
C5_Coalescing ==
  [][Active = {} =>
       /\ (unseen' # unseen /\ unseen' # "none") => timers' = 1
       /\ (timers' < timers /\ unseen # "none") => (timers' = 0 /\ unseen' = "none")]_vars

\* two notifications have arrived since the last pass started, none is running
C5_Witness ==
  /\ unseen = "several"
  /\ timers = 1
  /\ Active = {}
  /\ ~initTimer

\* C6: no entry of the token cache holds a fallback estimate
C6_NoFallbackCached ==
  \A i \in DOMAIN tokenCache : tokenCache[i].src # "fallback"

-----------------------------------------------------------------------------
(* Notifications and lost responses, under fair scheduling *)

AllRequestsResolve == \A p \in Active : ~p.lost

\* C4: provided every count request resolves, every notification is followed
\* by the start of a pass, so none is dropped
C4_NoNotificationDropped ==
  (tracker = "claude" /\ []AllRequestsResolve) => ((unseen # "none") ~> (unseen = "none"))

\* C9: a pass whose count response never arrives still completes, and the
\* scheduler leaves Running
C9_LostRequestResolves ==
  (\E p \in Active : p.lost) ~> ~isCalculating

-----------------------------------------------------------------------------
(* The request bridge *)

IsCeilOfQuarter(v, n) ==
  /\ v \in Nat
  /\ CharsPerToken * v >= n
  /\ CharsPerToken * v < n + CharsPerToken

\* C7: countTokens resolves with a number whatever the await ends with
C7_NeverRejects ==
  bridge.phase = "settled" => (bridge.status = "resolved" /\ bridge.value \in Nat)

\* sendMessage threw and countTokens has returned
C7_Witness ==
  /\ bridge.phase = "settled"
  /\ bridge.outcome = "throws"
  /\ bridge.status = "resolved"

\* C8: the fallback estimate of a text is ceil(length / 4), 0 for the empty
\* text, and countTokens returns exactly it unless the service answers success
C8_FallbackValue ==
  bridge.phase # "none" =>
    /\ IsCeilOfQuarter(approximateTokens(bridge.text), Len(bridge.text))
    /\ (bridge.text = <<>>) => (approximateTokens(bridge.text) = 0)
    /\ (bridge.phase = "settled" /\ bridge.outcome # "success") =>
          bridge.value = approximateTokens(bridge.text)

\* the service answered {success: false} for a text of five characters
C8_Witness ==
  /\ bridge.phase = "settled"
  /\ bridge.outcome = "failure"
  /\ Len(bridge.text) = 5
  /\ bridge.value = 2

-----------------------------------------------------------------------------
(* The cache capacity policy *)

\* C10: a trim of more than CacheLimit entries leaves exactly the CacheKeep
\* last inserted entries with their values, whether or not an entry was hit;
\* a trim of at most CacheLimit entries leaves the cache as it was
C10_TrimKeepsLast ==
  cacheOps.phase = "trimmed" =>
    IF cacheOps.inserted > CacheLimit
    THEN /\ Len(tokenCache) = CacheKeep
         /\ \A i \in 1..CacheKeep :
              tokenCache[i] = EntryOf(cacheOps.inserted - CacheKeep + i)
    ELSE tokenCache = [j \in 1..cacheOps.inserted |-> EntryOf(j)]

\* 1,001 distinct keys were inserted, one entry was hit, and the trim ran
C10_Witness ==
  /\ cacheOps.phase = "trimmed"
  /\ cacheOps.inserted = CacheLimit + 1
  /\ cacheOps.hit
  /\ Len(tokenCache) = CacheKeep

\* C11: a chat switch happens only when the address differs from the recorded
\* one; it empties the cache completely and records the new address, so the
\* other detectors of the same transition find the address unchanged and do
\* nothing; the cache never loses entries in any other step
C11_ResetOncePerTransition ==
  [][/\ switchTimers' > switchTimers =>
          (location # currentUrl /\ tokenCache' = <<>> /\ currentUrl' = location)
     /\ Len(tokenCache') < Len(tokenCache) =>
          (tokenCache' = <<>> /\ switchTimers' > switchTimers)
     /\ (SameUrl /\ (ClaudeHandleChatSwitch \/ GptHandleChatSwitch)) =>
          UNCHANGED vars]_vars

\* a switch has reset the tracker and the detectors now find the URL unchanged
C11_Witness ==
  /\ switchTimers > 0
  /\ location = currentUrl
  /\ tokenCache = <<>>
  /\ Running > 0

\* C12: the step of handleChatSwitch that resets the tracker leaves the
\* indicator in its loading display
C12_SwitchShowsLoading ==
  [][switchTimers' > switchTimers => indicator'.loading]_vars

\* C13: a pass of the Claude tracker that ends while the session is not
\* settled (hasCompletedInitialLoad still false) leaves the indicator in its
\* loading display
C13_LoadingUntilSettled ==
  [][(/\ \/ \E held \in BOOLEAN : ClaudeDebounceFire(held)
         \/ \E p \in Active : ClaudeDeliver(p, "success")
      /\ ~isCalculating'
      /\ ~hasCompletedInitialLoad')
       => indicator'.loading]_vars

\* C14: the step of handleChatSwitch that resets the tracker leaves no
\* debounce timer pending
C14_SwitchCancelsTimer ==
  [][switchTimers' > switchTimers => timers' = 0]_vars

\* C15: the response of a count request issued before the conversation
\* changed leaves the token cache as it is
C15_LateResultNotCached ==
  [][\A p \in Active :
       (p.stale /\ (ClaudeDeliver(p, "success") \/ GptDeliver(p, "success")))
         => tokenCache' = tokenCache]_vars

\* the last call of update() displayed a count
CountShown == indicator.call.made /\ ~indicator.call.isLoading

\* C16: the colour tier of a displayed count follows the unrounded ratio
\* current/max: green up to 0.7, yellow above 0.7 and up to 0.9, red above 0.9
C16_TierByRatio ==
  CountShown =>
    LET c == indicator.call.currentTokens
        m == indicator.call.maxTokens
        bg == indicator.el.backgroundColor
    IN /\ bg = "#e8f5e9" <=> 10 * c <= 7 * m
       /\ bg = "#fff3e0" <=> (7 * m < 10 * c /\ 10 * c <= 9 * m)
       /\ bg = "#ffebee" <=> 9 * m < 10 * c

\* C17: a displayed count flashes exactly when current >= max
C17_FlashIffOverflow ==
  CountShown =>
    (indicator.el.animation = "flash"
       <=> indicator.call.currentTokens >= indicator.call.maxTokens)

\* what the user sees of the element
Displayed(el) ==
  <<el.tokenText, el.percentText, el.backgroundColor, el.borderColor, el.color,
    el.animation>>

\* C18: whatever calls came before, the element displays what a new element
\* displays after the same call
C18_Stateless ==
  indicator.call.made =>
    Displayed(indicator.el) =
      Displayed(update(NewIndicator, indicator.provider,
                       indicator.call.currentTokens, indicator.call.maxTokens,
                       indicator.call.hasScrollableContent,
                       indicator.call.isLoading))

\* a count in the normal tier displayed after a loading update and an
\* overflow update
C18_Witness ==
  /\ CountShown
  /\ indicator.el.styles = {"pulse", "flash"}
  /\ indicator.el.animation = "none"
  /\ indicator.el.backgroundColor = "#e8f5e9"

\* C19: when the count of the input text arrives, the pass ends and its
\* snapshot shows the counts added up so far plus that count, nothing else
C19_SnapshotIsSum ==
  [][\A p \in Active, outcome \in Outcomes :
       (p.stage = "input" /\ (ClaudeDeliver(p, outcome) \/ GptDeliver(p, outcome)))
         => indicator'.current = p.total + countTokens(p.text, outcome).value]_vars

\* a timer starts a pass
PassStarts ==
  \/ /\ tracker = "claude"
     /\ ~isCalculating
     /\ ClaudeInitialTimer \/ \E held \in BOOLEAN : ClaudeDebounceFire(held)
  \/ \E held \in BOOLEAN : GptDebounceFire(held)

\* the passes a step has added
Started == BagToSet(passes' (-) Earlier)

\* C20: a pass that finds the user message with its role and first PrefixLen
\* characters in the cache sends no request for it and adds the cached value,
\* whatever the rest of the text is; with the key absent it sends the text
C20_HitByPrefix ==
  [][(PassStarts /\ messages[1].present /\ ~messages[2].present) =>
       LET text == messages[1].text
           key == <<"user", Prefix(text)>>
       IN IF MapHas(tokenCache, key)
          THEN IF inputText = <<>>
               THEN /\ Started = {}
                    /\ indicator'.current = MapGet(tokenCache, key) +
                         (IF tracker = "chatgpt" THEN SystemPromptEstimate ELSE 0)
               ELSE /\ Started # {}
                    /\ \A q \in Started :
                         q.stage = "input" /\ q.total = MapGet(tokenCache, key)
          ELSE /\ Started # {}
               /\ \A q \in Started : q.stage = "msg" /\ q.text = text]_vars

\* the message now reads LongB, a pass has run since, and the indicator shows
\* the count cached for LongA
C20_Witness ==
  /\ tracker = "claude"
  /\ messages[1].text = LongB
  /\ unseen = "none"
  /\ Running = 0
  /\ inputText = <<>>
  /\ \E i \in DOMAIN tokenCache :
       /\ tokenCache[i].key = <<"user", Prefix(LongB)>>
       /\ tokenCache[i].value = Len(LongA)
  /\ indicator.current = Len(LongA)

\* C21: the WASM module is loaded at most once and each scheme's encoder is
\* constructed at most once
C21_InitOnce ==
  /\ worker.loads <= 1
  /\ \A sc \in Schemes : worker.built[sc] <= 1

\* C27: every request the handler has finished got exactly one response,
\* success or failure, and no request ever gets a response before its
\* handler ends or a second one
C27_OneResponse ==
  \A i \in 1..MaxRequests :
    LET req == worker.requests[i]
    IN IF req.pc = "done"
       THEN req.responses = 1 /\ req.result \in {"success", "failure"}
       ELSE req.responses = 0 /\ req.result = "none"

\* three requests answered, one after a failed construction or encoding and
\* one with a count, while only one WASM load ran
C27_Witness ==
  /\ \A i \in 1..MaxRequests : worker.requests[i].pc = "done"
  /\ \E i, j \in 1..MaxRequests :
       /\ worker.requests[i].result = "failure"
       /\ worker.requests[j].result = "success"
  /\ worker.initPromise = "fulfilled"

\* C22: the Claude tracker calls observeChat() at most maxRetries + 1 times
\* in one conversation
C22_ClaudeDiscoveryBounded ==
  tracker = "claude" => attempts <= maxRetries + 1

\* C23: once the ChatGPT tracker has called observeChat() MaxAttempts times
\* in one conversation, it has given up: no retry is pending
C23_GptDiscoveryBounded ==
  (tracker = "chatgpt" /\ attempts = MaxAttempts) => retryTimers = 0

-----------------------------------------------------------------------------
(* Duplicate requests within one pass *)

\* C24: a pass never requests a count for the text whose count it has just
\* received: when the next fragment has the same text, the pass reuses the
\* result and sends no second request
C24_NoDuplicateRequest ==
  [][\A p \in Active : \A q \in BagToSet(passes') :
       ( /\ p.stage = "msg" /\ q.stage = "msg"
         /\ passes' = (passes (-) SetToBag({p})) (+) SetToBag({q})
         /\ q.queue = Tail(p.queue) )
       => q.text # p.text]_vars

-----------------------------------------------------------------------------
(* One snapshot for each completed pass *)

-----------------------------------------------------------------------------
(* Exceptions inside a pass *)

\* C26: when a statement of a pass throws, calculateContext catches the
\* exception and returns: the pass ends, it has emitted no snapshot, the
\* display keeps the snapshot it had, and the Claude tracker is no longer
\* calculating
C26_FailureKeepsDisplay ==
  [][lastRun'.ended = "failed" =>
       /\ indicator' = indicator
       /\ lastRun'.updates = 0
       /\ Running' <= Running
       /\ tracker = "claude" => ~isCalculating']_vars

\* a pass has failed while the display shows the count of an earlier pass
C26_Witness ==
  /\ lastRun.ended = "failed"
  /\ ~indicator.loading
  /\ indicator.current > 0

-----------------------------------------------------------------------------
(* The size of the cache after a pass *)

\* C28: when a pass has completed, the cache holds at most CacheLimit
\* entries, however many it held when the pass began and however many the
\* pass inserted; a cache that had grown beyond CacheLimit holds CacheKeep
C28_CacheBounded ==
  cacheOps.phase = "trimmed" =>
    /\ Len(tokenCache) <= CacheLimit
    /\ cacheOps.inserted > CacheLimit => Len(tokenCache) = CacheKeep

\* a pass that began with a full cache inserted two entries and completed
C28_Witness ==
  /\ cacheOps.phase = "trimmed"
  /\ cacheOps.added = MaxInserts
  /\ cacheOps.inserted = CacheLimit + MaxInserts
  /\ Len(tokenCache) = CacheKeep

-----------------------------------------------------------------------------
(* A change of the model parameter *)

\* the parts of an address: its path, then its query parameters
RECURSIVE Split(_)
Split(s) ==
  LET seps == {i \in 1..Len(s) : s[i] \in {"?", "&"}}
  IN IF seps = {} THEN <<s>>
     ELSE <<SubSeq(s, 1, Least(seps) - 1)>>
            \o Split(SubSeq(s, Least(seps) + 1, Len(s)))

\* the path and the query parameters other than model
Address(url) ==
  SelectSeq(Split(UrlChars(url)),
            LAMBDA part : ~(Len(part) >= Len(ModelEq)
                            /\ SubSeq(part, 1, Len(ModelEq)) = ModelEq))

\* C29: when the address of the ChatGPT page differs from the recorded one in
\* its model parameter only, handleChatSwitch records the new address and
\* changes nothing else: the cache, the observer and the display stay as they
\* are and no re-observation is started
C29_ModelChangeIsNoSwitch ==
  [][( /\ tracker = "chatgpt"
       /\ location # currentUrl
       /\ Address(location) = Address(currentUrl)
       /\ GptHandleChatSwitch )
     => /\ currentUrl' = location
        /\ UNCHANGED <<tokenCache, observer, indicator, switchTimers>>]_vars

-----------------------------------------------------------------------------
(* The content-wait polling of the ChatGPT chat switch *)

\* C30: an interval started by a chat switch is cleared at its tenth tick at
\* the latest; the tick that clears it calls observeChat once and starts the
\* debounced recalculation, and nothing else of that switch starts a
\* recalculation later: once the debounce timer has fired, the timers the
\* switch has left start none
C30_PollingEndsOnce ==
  /\ [](\A r \in BagToSet(retries) : r < GptMaxRetries)
  /\ [][/\ switchTimers' < switchTimers =>
            /\ BagCardinality(retries') = BagCardinality(retries) - 1
            /\ attempts' = attempts + 1
            /\ calculationTimeout' = "pending"
        /\ (lateTimers' < lateTimers /\ calculationTimeout # "pending") =>
            UNCHANGED <<timers, calculationTimeout>>]_vars

-----------------------------------------------------------------------------
(* The isCalculating flag *)

\* C31: in the Claude tracker isCalculating is true exactly while a pass is
\* executing, and there is never more than one: when a pass has ended, by
\* its return or by an exception, the flag is false
C31_FlagFollowsPass ==
  tracker = "claude" => /\ Running <= 1
                        /\ isCalculating <=> Running = 1

\* a pass has thrown and the flag is down
C31_Witness ==
  /\ tracker = "claude"
  /\ lastRun.ended = "failed"
  /\ Running = 0
  /\ ~isCalculating

-----------------------------------------------------------------------------
(* The recalculation after a chat switch *)

\* a pass that began after the latest chat switch has run to its end and has
\* emitted its snapshot
FreshPassCompleted == lastRun.ended = "completed" /\ ~lastRun.stale

\* C32: provided every count request resolves, every chat switch of the
\* Claude tracker is followed by the completion of a pass that began after
\* it, whether or not a pass of the previous conversation is executing when
\* the re-observe timer schedules the calculation
C32_SwitchIsFollowedByPass ==
  (tracker = "claude" /\ []AllRequestsResolve) =>
    [](switchTimers > 0 => <>FreshPassCompleted)

-----------------------------------------------------------------------------
(* Passes overtaken by a chat switch *)

\* C33: a pass that was executing when the conversation changed emits no
\* snapshot and does not settle the new session: when its last count arrives
\* the display and hasCompletedInitialLoad stay as the chat switch left them
C33_OvertakenPassEmitsNothing ==
  [][\A p \in Active :
       (p.stale /\ (ClaudeDeliver(p, "success") \/ GptDeliver(p, "success")))
         => /\ indicator' = indicator
            /\ hasCompletedInitialLoad' = hasCompletedInitialLoad]_vars

-----------------------------------------------------------------------------
(* The order of the snapshots of the ChatGPT tracker *)

\* C34: in the ChatGPT tracker a pass that is not the one that began last
\* emits its snapshot only while the pass that began last is still executing,
\* so the snapshot displayed when all passes have ended is that of the pass
\* that began last
C34_SnapshotsInStartOrder ==
  [][\A p \in Active :
       ( /\ tracker = "chatgpt"
         /\ ~p.latest
         /\ \E outcome \in Outcomes : GptDeliver(p, outcome)
         /\ lastRun'.ended = "completed" )
       => \E q \in Active : q.latest]_vars

\* C35: at most one observer of the conversation is connected at any time:
\* no connected observer is left behind when this.observer is assigned
C35_OneObserver == leaked = 0

\* C36: cache entries are write-once: a key that is in the token cache before
\* and after a step has the same value before and after it
C36_WriteOnce ==
  [][\A i \in DOMAIN tokenCache : \A j \in DOMAIN tokenCache' :
       tokenCache[i].key = tokenCache'[j].key
         => tokenCache'[j].value = tokenCache[i].value]_vars

\* C37: once initPromise has rejected it stays rejected and loadWasm() is not
\* called again; every request answered from then on gets one response, which
\* is { success: false }, and countTokens turns it into the estimate
C37_InitFailureSticky ==
  [][worker.initPromise = "rejected" =>
       /\ worker'.initPromise = "rejected"
       /\ worker'.loads = worker.loads
       /\ \A i \in 1..MaxRequests :
            (worker.requests[i].pc # "done" /\ worker'.requests[i].pc = "done")
              => /\ worker'.requests[i].responses = 1
                 /\ worker'.requests[i].result = "failure"
                 /\ countTokens(TxtHi, worker'.requests[i].result).src = "fallback"]_vars

\* a request that arrived after the rejection has been answered
C37_Witness ==
  /\ worker.initPromise = "rejected"
  /\ worker.loads = 1
  /\ \E i \in 1..MaxRequests :
       /\ worker.requests[i].late
       /\ worker.requests[i].pc = "done"
       /\ worker.requests[i].result = "failure"

\* C38: at most one timer set by scheduleCalculation or by
\* calculateContextDebounced is pending at any time, and it is the one the
\* handle refers to
C38_OneDebounceTimer ==
  /\ timers <= 1
  /\ timers = 1 <=> calculationTimeout = "pending"

\* a notification has replaced the pending timer of an earlier notification
C38_Witness ==
  /\ unseen = "several"
  /\ timers = 1
  /\ calculationTimeout = "pending"

====
